---- MODULE Spec2Model ----
(***************************************************************************)
(* NIG Training Gym Occupancy (nig_gym_occupancy_webapp.py).               *)
(*                                                                         *)
(* The program is a Streamlit script over two worksheets of one Google     *)
(* sheet, "active" and "log".  Every interaction of the user (a page load, *)
(* a button click) runs the script from its first line to its last:        *)
(*   1. load_df returns the two dataframes, from the st.cache_data cache   *)
(*      when an entry younger than CACHE_TTL seconds exists;               *)
(*   2. the sweep deletes from the "active" worksheet the rows that the    *)
(*      dataframe says are older than MAX_SESSION_DUR minutes;             *)
(*   3. the tabs are drawn and the handler of the clicked button runs.     *)
(*                                                                         *)
(* Time is in seconds.  A worksheet is the sequence of its data rows; the  *)
(* header is sheet row 1, so the data row at position i (from 1) is sheet  *)
(* row i + 1, and the dataframe row with index e (from 0) is sheet row     *)
(* e + 2.  str(datetime) followed by pd.to_datetime returns the instant it *)
(* was given, so a timestamp is the same number in both tables and in both *)
(* dataframes.  A blank cell is Absent.                                    *)
(***************************************************************************)
EXTENDS Integers, Sequences, FiniteSets, TLC

\* ---- configuration (lines 16-19) ----
MAX_SESSION_DUR == 180
MAX_CAPACITY == 2
TIMEZONE_OFFSET == 9
CACHE_TTL == 300

\* ---- bounds of the model ----
\* at most MaxLog rows are ever appended to the log worksheet
MaxLog == 2

\* what the user can type in the Name and Lab boxes, and pick as duration;
\* the names are text that get_all_records returns as it was written
NameInputs == {"", "a", "b"}
LabInputs == {"", "L"}
DurInputs == {30}
\* the clock advances by half a minute or to MAX_SESSION_DUR minutes: it
\* reads 0, 30, 10800 and 10830 seconds
ShortStep == 60 \div 2
LongStep == MAX_SESSION_DUR * 60

\* a blank cell of a worksheet
Absent == -1
\* the value of a selectbox without options
None == "None"

VARIABLES
    utc,            \* datetime.datetime.utcnow(), in seconds
    storeActive,    \* the data rows of worksheet "active"
    storeLog,       \* the data rows of worksheet "log"
    cacheValid,     \* st.cache_data holds an entry for load_df
    cacheAt,        \* when that entry was stored
    cacheDf,        \* the entry: df_loaded
    cacheLog,       \* the entry: log_df_loaded
    pc,             \* position of the script run: "idle", "rerun", "tabs"
    login,          \* st.session_state["login"]
    logout,         \* st.session_state["logout"]
    button,         \* the button whose handler ran last
    name_input,     \* the Name box of the Login tab on that run
    lab_input,      \* the Lab box
    dur_input,      \* the Duration box
    name_logout,    \* the Name selectbox of the Logout tab
    result,         \* what the handler showed
    failed,         \* a call of the store has failed (at most one does)
    max_capacity,   \* the configured MAX_CAPACITY
    home            \* the capacity message the Home tab shows
vars == <<utc, storeActive, storeLog, cacheValid, cacheAt, cacheDf, cacheLog,
          pc, login, logout, button, name_input, lab_input, dur_input,
          name_logout, result, failed, max_capacity, home>>

store == <<storeActive, storeLog>>
cache == <<cacheValid, cacheAt, cacheDf, cacheLog>>
widgets == <<name_input, lab_input, dur_input, name_logout>>
shown == <<max_capacity, home>>

\* ---- helpers over sequences ----
Indices(s) == 1..Len(s)
RemoveAt(s, i) == SubSeq(s, 1, i - 1) \o SubSeq(s, i + 1, Len(s))
Min(S) == CHOOSE x \in S : \A y \in S : x <= y
RECURSIVE Ascending(_)
Ascending(S) == IF S = {} THEN <<>> ELSE <<Min(S)>> \o Ascending(S \ {Min(S)})

\* ---- the Time Provider (lines 39-43) ----
datetime_now(input_timezone_offset) == utc + input_timezone_offset * 3600

\* ---- the worksheet operations of gspread used by the script ----
\* worksheet.delete_rows(r): the sheet row r goes and the rows below move up;
\* a row below the data is blank, and deleting it changes no data row
delete_rows(ws, r) ==
    IF r - 1 \in Indices(ws) THEN RemoveAt(ws, r - 1) ELSE ws
\* worksheet.append_row(values, table_range="A1:E1"): after the last row
append_row(ws, row) == Append(ws, row)
\* worksheet.update_cell(r, col, value) for the two columns the script writes
update_cell(ws, r, col, value) ==
    IF r - 1 \in Indices(ws)
    THEN IF col = 6 THEN [ws EXCEPT ![r - 1].finish_actual = value]
         ELSE IF col = 7 THEN [ws EXCEPT ![r - 1].duration_actual = value]
         ELSE ws
    ELSE ws

\* ---- load_df (lines 65-98) ----
\* the dataframes are the worksheets' records, row for row
load_df_active == storeActive
load_df_log == storeLog
\* a cache that forgets its entry on every run
ExpiredOnEveryRun == TRUE
\* st.cache_data(ttl=CACHE_TTL): the entry is used while it is younger than ttl
Expired == ~cacheValid \/ utc - cacheAt >= CACHE_TTL
df == IF Expired THEN load_df_active ELSE cacheDf
log_df == IF Expired THEN load_df_log ELSE cacheLog

\* ---- stale entry eviction (lines 100-110) ----
\* df["delta"] / np.timedelta64(1, "m") > MAX_SESSION_DUR
IsOld(row, current_time) == current_time - row.start > MAX_SESSION_DUR * 60
\* old_entries: the dataframe indices (from 0) of the old rows, ascending
old_entries(d, current_time) ==
    Ascending({i - 1 : i \in {j \in Indices(d) : IsOld(d[j], current_time)}})
\* for entry in old_entries: worksheet_active.delete_rows(int(entry) + 2)
RECURSIVE Sweep(_, _)
Sweep(ws, entries) ==
    IF entries = <<>> THEN ws
    ELSE Sweep(delete_rows(ws, Head(entries) + 2), Tail(entries))

\* ---- the occupancy of the Home tab (lines 117-128) ----
\* a classification that takes a full gym for an overfull one
OccupancyFullIsOver(n, capacity) ==
    IF n >= capacity THEN "over"
    ELSE IF n = 0 THEN "empty"
    ELSE "under"
\* the message for len(df.index) = n: the branches in the order of the code
Occupancy(n, capacity) ==
    IF n > capacity THEN "over"
    ELSE IF n = capacity THEN "at"
    ELSE IF n = 0 THEN "empty"
    ELSE "under"

\* ---- names of a table ----
NamesOf(d) == {d[i].name : i \in Indices(d)}
\* the first dataframe index (from 1 here) of a row with this name
FirstNamed(d, n) == Min({i \in Indices(d) : d[i].name = n})

Init ==
    /\ utc = 0
    /\ storeActive = <<>>
    /\ storeLog = <<>>
    /\ cacheValid = FALSE
    /\ cacheAt = 0
    /\ cacheDf = <<>>
    /\ cacheLog = <<>>
    /\ pc = "idle"
    /\ login = FALSE
    /\ logout = FALSE
    /\ button = "none"
    /\ name_input = ""
    /\ lab_input = ""
    /\ dur_input = 30
    /\ name_logout = None
    /\ result = "none"
    /\ failed = FALSE
    /\ max_capacity = MAX_CAPACITY
    /\ home = "none"

\* the clock advances between two runs of the script
Tick ==
    /\ pc = "idle"
    /\ \/ /\ utc % LongStep < ShortStep
          /\ utc' = utc + ShortStep
       \/ /\ utc < LongStep
          /\ utc' = LongStep
    /\ UNCHANGED <<store, cache, pc, login, logout, button, widgets, result, failed, shown>>

\* a sweep that also closes the log rows of the sessions it evicts
LoadCycleClosingLog ==
    /\ pc \in {"idle", "rerun"}
    /\ cacheValid' = TRUE
    /\ cacheAt' = IF Expired THEN utc ELSE cacheAt
    /\ cacheDf' = df
    /\ cacheLog' = log_df
    /\ storeActive' = Sweep(storeActive, old_entries(df, datetime_now(TIMEZONE_OFFSET)))
    /\ storeLog' =
        [j \in DOMAIN storeLog |->
            IF \E i \in Indices(df) :
                /\ IsOld(df[i], datetime_now(TIMEZONE_OFFSET))
                /\ df[i].name = storeLog[j].name
                /\ df[i].start = storeLog[j].start
            THEN [storeLog[j] EXCEPT !.finish_actual = datetime_now(TIMEZONE_OFFSET)]
            ELSE storeLog[j]]
    /\ pc' = "tabs"
    /\ button' = "none"
    /\ result' = "none"
    /\ name_input' = ""
    /\ lab_input' = ""
    /\ dur_input' = 30
    /\ name_logout' = None
    /\ home' = Occupancy(Len(df), max_capacity)
    /\ UNCHANGED <<utc, login, logout, failed, max_capacity>>

\* lines 62-128: the top of every run of the script: load_df through the
\* cache, then the sweep of the old entries on the worksheet, then the
\* occupancy of the Home tab
LoadCycle ==
    /\ pc \in {"idle", "rerun"}
    /\ cacheValid' = TRUE
    /\ cacheAt' = IF Expired THEN utc ELSE cacheAt
    /\ cacheDf' = df
    /\ cacheLog' = log_df
    /\ storeActive' = Sweep(storeActive, old_entries(df, datetime_now(TIMEZONE_OFFSET)))
    /\ pc' = "tabs"
    /\ button' = "none"
    /\ result' = "none"
    /\ name_input' = ""
    /\ lab_input' = ""
    /\ dur_input' = 30
    /\ name_logout' = None
    /\ home' = Occupancy(Len(df), max_capacity)
    /\ UNCHANGED <<utc, storeLog, login, logout, failed, max_capacity>>

\* a run in which no button is clicked
NoClick ==
    /\ pc = "tabs"
    /\ pc' = "idle"
    /\ UNCHANGED <<utc, store, cache, login, logout, button, widgets, result, failed, shown>>

\* ---- the Login tab (lines 169-242) ----
\* a start_time taken when the dataframes were loaded, not at the click
LoginStartAtLoad == cacheAt + TIMEZONE_OFFSET * 3600
\* lines 194-196: start_time, dur, finish_time
LoginStart == datetime_now(TIMEZONE_OFFSET)
LoginFinish(d) == LoginStart + d * 60
\* lines 222-228: input_row, as the row of worksheet "active"
input_row(n, l, d) ==
    [name |-> n, lab |-> l, start |-> LoginStart,
     finish_estimation |-> LoginFinish(d), duration_estimation |-> d]
\* the same five cells appended to worksheet "log": columns 6 and 7 stay blank
input_row_log(n, l, d) ==
    [name |-> n, lab |-> l, start |-> LoginStart,
     finish_estimation |-> LoginFinish(d), duration_estimation |-> d,
     finish_actual |-> Absent, duration_actual |-> Absent]
\* line 211: len(name_input) == 0
BlankName(n) == n = ""
\* a handler that forgets the check of the lab
BlankLabNever(l) == FALSE
\* line 213: len(lab_input) == 0
BlankLab(l) == l = ""
\* line 216: name_input in df["name"].values, df being the cached dataframe
IsTwin(n) == n \in NamesOf(cacheDf)

\* lines 207-235: the handler of the Login button
LoginClick(n, l, d) ==
    /\ pc = "tabs"
    /\ Len(storeLog) < MaxLog
    /\ pc' = "idle"
    /\ button' = "login"
    /\ name_input' = n
    /\ lab_input' = l
    /\ dur_input' = d
    /\ login' = ~login
    /\ IF BlankName(n)
       THEN result' = "error_name" /\ UNCHANGED store
       ELSE IF BlankLab(l)
       THEN result' = "error_lab" /\ UNCHANGED store
       ELSE IF IsTwin(n)
       THEN result' = "error_twin" /\ UNCHANGED store
       ELSE /\ storeActive' = append_row(storeActive, input_row(n, l, d))
            /\ storeLog' = append_row(storeLog, input_row_log(n, l, d))
            /\ result' = "success"
    /\ UNCHANGED <<utc, cache, logout, name_logout, failed, shown>>

\* lines 230-231 when the store fails between the two appends: the first
\* append_row has written, the second raises, and nothing is undone
LoginFailClick(n, l, d) ==
    /\ pc = "tabs"
    /\ ~failed
    /\ Len(storeLog) < MaxLog
    /\ ~BlankName(n) /\ ~BlankLab(l) /\ ~IsTwin(n)
    /\ pc' = "idle"
    /\ button' = "login"
    /\ name_input' = n
    /\ lab_input' = l
    /\ dur_input' = d
    /\ login' = ~login
    /\ storeActive' = append_row(storeActive, input_row(n, l, d))
    /\ result' = "exception"
    /\ failed' = TRUE
    /\ UNCHANGED <<utc, storeLog, cache, logout, name_logout, shown>>

\* ---- the Logout tab (lines 244-299) ----
\* line 248: st.selectbox("Name", options=df["name"].unique())
LogoutOptions == IF Len(cacheDf) = 0 THEN {None} ELSE NamesOf(cacheDf)
\* line 255
finish_actual == datetime_now(TIMEZONE_OFFSET)
\* a conversion that rounds to the next minute
IntMinutesUp(seconds) == (seconds + 59) \div 60
\* int(x / 60): Python's int() drops the fraction, towards zero
IntMinutes(seconds) ==
    IF seconds >= 0 THEN seconds \div 60 ELSE -((-seconds) \div 60)
\* lines 252-259: the start of the first dataframe row with the chosen name
LogoutStart(n) == cacheDf[FirstNamed(cacheDf, n)].start
duration_actual(n) == IntMinutes(finish_actual - LogoutStart(n))
\* lines 276-278: the log_df indices (from 1 here) with this name and start
LogMatches(n) ==
    {i \in Indices(cacheLog) :
        cacheLog[i].name = n /\ cacheLog[i].start = LogoutStart(n)}
\* lines 275-280: name_logout_log_idx, a sheet row
name_logout_log_idx(n) == (Min(LogMatches(n)) - 1) + 2
\* line 285: name_logout_idx, a sheet row
name_logout_idx(n) == (FirstNamed(cacheDf, n) - 1) + 2
\* lines 282-283: the two cells written into worksheet "log"
UpdateLog(ws, n) ==
    update_cell(update_cell(ws, name_logout_log_idx(n), 6, finish_actual),
                name_logout_log_idx(n), 7, duration_actual(n))

\* line 274 and line 278: .values[0] and .tolist()[0] of an empty selection
LogoutRaises(n) == n \notin NamesOf(cacheDf) \/ LogMatches(n) = {}

\* a handler that skips the log update when no log_df row matches, and goes on
LogoutClickSkipping(n) ==
    /\ pc = "tabs"
    /\ n \in LogoutOptions
    /\ pc' = "idle"
    /\ button' = "logout"
    /\ name_logout' = n
    /\ logout' = ~logout
    /\ IF n \notin NamesOf(cacheDf)
       THEN result' = "exception" /\ UNCHANGED store
       ELSE /\ storeLog' = IF LogMatches(n) = {} THEN storeLog
                           ELSE UpdateLog(storeLog, n)
            /\ storeActive' = delete_rows(storeActive, name_logout_idx(n))
            /\ result' = "success"
    /\ UNCHANGED <<utc, cache, login, name_input, lab_input, dur_input, failed, shown>>

\* lines 271-291: the handler of the Logout button.  With an empty dataframe
\* the selectbox gives None and line 274 raises IndexError; with no matching
\* log_df row line 278 raises IndexError; both before any write.
LogoutClick(n) ==
    /\ pc = "tabs"
    /\ n \in LogoutOptions
    /\ pc' = "idle"
    /\ button' = "logout"
    /\ name_logout' = n
    /\ logout' = ~logout
    /\ IF LogoutRaises(n)
       THEN result' = "exception" /\ UNCHANGED store
       ELSE /\ storeLog' = UpdateLog(storeLog, n)
            /\ storeActive' = delete_rows(storeActive, name_logout_idx(n))
            /\ result' = "success"
    /\ UNCHANGED <<utc, cache, login, name_input, lab_input, dur_input, failed, shown>>

\* a handler that deletes the active row before it updates the log
LogoutWritesDeleteFirst(n, k) ==
    <<IF k >= 1 THEN delete_rows(storeActive, name_logout_idx(n)) ELSE storeActive,
      IF k >= 3 THEN UpdateLog(storeLog, n)
      ELSE IF k = 2
      THEN update_cell(storeLog, name_logout_log_idx(n), 6, finish_actual)
      ELSE storeLog>>
\* lines 282-286: the two worksheets after the first k of the three writes,
\* update_cell(.., 6, ..), update_cell(.., 7, ..), delete_rows(..)
LogoutWrites(n, k) ==
    <<IF k >= 3 THEN delete_rows(storeActive, name_logout_idx(n)) ELSE storeActive,
      IF k >= 2 THEN UpdateLog(storeLog, n)
      ELSE IF k = 1
      THEN update_cell(storeLog, name_logout_log_idx(n), 6, finish_actual)
      ELSE storeLog>>

\* lines 271-286 when the store fails at the write after the first k: the
\* writes made stay, the call raises, and the rest of the handler is not run
LogoutFailClick(n, k) ==
    /\ pc = "tabs"
    /\ ~failed
    /\ n \in LogoutOptions
    /\ ~LogoutRaises(n)
    /\ pc' = "idle"
    /\ button' = "logout"
    /\ name_logout' = n
    /\ logout' = ~logout
    /\ storeActive' = LogoutWrites(n, k)[1]
    /\ storeLog' = LogoutWrites(n, k)[2]
    /\ result' = "exception"
    /\ failed' = TRUE
    /\ UNCHANGED <<utc, cache, login, name_input, lab_input, dur_input, shown>>

\* ---- the Refresh buttons ----
\* st.cache_data.clear(); st.experimental_rerun(): the entry goes and the
\* script starts again at once
ClearAndRerun ==
    /\ cacheValid' = FALSE
    /\ pc' = "rerun"
    /\ button' = "refresh"
    /\ result' = "none"
    /\ UNCHANGED <<utc, store, cacheAt, cacheDf, cacheLog, widgets, failed, shown>>

\* lines 164-167
RefreshHome ==
    /\ pc = "tabs"
    /\ ClearAndRerun
    /\ UNCHANGED <<login, logout>>

\* lines 237-242
RefreshLogin ==
    /\ pc = "tabs"
    /\ login
    /\ login' = FALSE
    /\ ClearAndRerun
    /\ UNCHANGED logout

\* lines 294-299
RefreshLogout ==
    /\ pc = "tabs"
    /\ logout
    /\ logout' = FALSE
    /\ ClearAndRerun
    /\ UNCHANGED login

Login == \E n \in NameInputs, l \in LabInputs, d \in DurInputs : LoginClick(n, l, d)
Logout == \E n \in NameInputs \cup {None} : LogoutClick(n)

Next ==
    \/ Tick
    \/ LoadCycle
    \/ NoClick
    \/ Login
    \/ Logout
    \/ RefreshHome
    \/ RefreshLogin
    \/ RefreshLogout

Spec == Init /\ [][Next]_vars

\* the same program over a store whose calls can fail during a logout
LogoutFail == \E n \in NameInputs, k \in 0..2 : LogoutFailClick(n, k)

NextLogoutFail ==
    \/ Tick
    \/ LoadCycle
    \/ NoClick
    \/ Login
    \/ Logout
    \/ LogoutFail
    \/ RefreshHome
    \/ RefreshLogin
    \/ RefreshLogout

SpecLogoutFail == Init /\ [][NextLogoutFail]_vars

\* ---- the Home tab alone, over every size of df and every capacity ----
\* the largest len(df.index) and the largest MAX_CAPACITY drawn
MaxRows == 9
MaxCapacity == 5
\* a dataframe of n sessions started now
SomeDf(n) ==
    [i \in 1..n |->
        [name |-> "a", lab |-> "L", start |-> datetime_now(TIMEZONE_OFFSET),
         finish_estimation |-> datetime_now(TIMEZONE_OFFSET) + 30 * 60,
         duration_estimation |-> 30]]
InitCapacity ==
    /\ utc = 0
    /\ \E n \in 0..MaxRows : storeActive = SomeDf(n) /\ cacheDf = SomeDf(n)
    /\ storeLog = <<>>
    /\ cacheValid = TRUE
    /\ cacheAt = 0
    /\ cacheLog = <<>>
    /\ pc = "idle"
    /\ login = FALSE
    /\ logout = FALSE
    /\ button = "none"
    /\ name_input = ""
    /\ lab_input = ""
    /\ dur_input = 30
    /\ name_logout = None
    /\ result = "none"
    /\ failed = FALSE
    /\ max_capacity \in 0..MaxCapacity
    /\ home = "none"
\* lines 117-128
HomeTab ==
    /\ pc = "idle"
    /\ pc' = "tabs"
    /\ home' = Occupancy(Len(cacheDf), max_capacity)
    /\ UNCHANGED <<utc, store, cache, login, logout, button, widgets, result,
                   failed, max_capacity>>
SpecCapacity == InitCapacity /\ [][HomeTab]_vars

\* the same program over a store whose calls can fail
LoginFail == \E n \in NameInputs, l \in LabInputs, d \in DurInputs : LoginFailClick(n, l, d)

NextFail ==
    \/ Tick
    \/ LoadCycle
    \/ NoClick
    \/ Login
    \/ LoginFail
    \/ Logout
    \/ RefreshHome
    \/ RefreshLogin
    \/ RefreshLogout

SpecFail == Init /\ [][NextFail]_vars
\* ======================= the claims =======================
\* the transitions that are a run of the Login handler, of the Logout handler,
\* and of the top of the script
LoginRan == pc = "tabs" /\ button' = "login"
LogoutRan == pc = "tabs" /\ button' = "logout"
LoadRan == pc \in {"idle", "rerun"} /\ pc' = "tabs"
ValidationErrors == {"error_name", "error_lab", "error_twin"}
\* the log rows (positions) with this name and start
LogRowsOf(ws, n, st) == {j \in Indices(ws) : ws[j].name = n /\ ws[j].start = st}

\* C1: a login whose name is already in the active table fails with a
\* validation error and changes neither the active table nor the log table,
\* whatever the age of the cached view.
C1_DuplicateLoginRejected ==
    [][(LoginRan /\ name_input' \in NamesOf(storeActive))
        => (result' \in ValidationErrors /\ UNCHANGED store)]_vars

\* C2: the active table holds at most one session per distinct name.
C2_OneSessionPerName ==
    \A i, j \in Indices(storeActive) :
        storeActive[i].name = storeActive[j].name => i = j

\* C3: a logout of a name present in the active table removes exactly one
\* row of the active table, the row of that name, and fills finish_actual and
\* duration_actual of the log row with the same (name, start).
C3_LogoutRemovesNamedRow ==
    [][(LogoutRan /\ name_logout' \in NamesOf(storeActive))
        => \E i \in Indices(storeActive) :
            /\ storeActive[i].name = name_logout'
            /\ storeActive' = RemoveAt(storeActive, i)
            /\ \E j \in LogRowsOf(storeLog', name_logout', storeActive[i].start) :
                /\ storeLog'[j].finish_actual # Absent
                /\ storeLog'[j].duration_actual # Absent]_vars

\* C4: a load cycle removes from the active table exactly the sessions whose
\* age is strictly greater than MAX_SESSION_DUR minutes.
NotOlderThanMax(row) ==
    datetime_now(TIMEZONE_OFFSET) - row.start <= MAX_SESSION_DUR * 60
C4_SweepRemovesExactlyOld ==
    [][LoadRan => storeActive' = SelectSeq(storeActive, NotOlderThanMax)]_vars

\* C5: a login with a non-empty name, a non-empty lab and a name not in the
\* active table appends one row to the active table and one to the log table,
\* with the same name, lab, start, finish_estimation = start + duration and
\* duration_estimation, the log row's actual fields absent.
C5_ValidLoginAppends ==
    [][(LoginRan /\ name_input' # "" /\ lab_input' # ""
            /\ name_input' \notin NamesOf(storeActive))
        => LET st == datetime_now(TIMEZONE_OFFSET) IN
            /\ storeActive' = Append(storeActive,
                    [name |-> name_input', lab |-> lab_input', start |-> st,
                     finish_estimation |-> st + dur_input' * 60,
                     duration_estimation |-> dur_input'])
            /\ storeLog' = Append(storeLog,
                    [name |-> name_input', lab |-> lab_input', start |-> st,
                     finish_estimation |-> st + dur_input' * 60,
                     duration_estimation |-> dur_input',
                     finish_actual |-> Absent, duration_actual |-> Absent])]_vars

\* C6: a login with an empty name or an empty lab fails with a validation
\* error and leaves the active table and the log table unchanged.
C6_BlankLoginRejected ==
    [][(LoginRan /\ (name_input' = "" \/ lab_input' = ""))
        => (result' \in {"error_name", "error_lab"} /\ UNCHANGED store)]_vars
\* a login with a name and without a lab was rejected while someone was active
C6_Witness ==
    /\ pc = "idle" /\ button = "login"
    /\ name_input = "a" /\ lab_input = ""
    /\ result = "error_lab"
    /\ storeActive # <<>>

\* C7: every row of the active table has exactly one log row with the same
\* (name, start), and that log row's actual fields are absent.
C7_ActiveRowHasOneOpenLogRow ==
    \A i \in Indices(storeActive) :
        LET rows == LogRowsOf(storeLog, storeActive[i].name, storeActive[i].start)
        IN  /\ Cardinality(rows) = 1
            /\ \A j \in rows : /\ storeLog[j].finish_actual = Absent
                               /\ storeLog[j].duration_actual = Absent

\* C8: the duration_actual written at logout is >= 0 and is the whole number
\* of minutes, rounded down, between the start of the session and
\* finish_actual.
C8_DurationActualFloor ==
    \A j \in Indices(storeLog) :
        storeLog[j].finish_actual # Absent
        => /\ storeLog[j].duration_actual >= 0
           /\ storeLog[j].duration_actual * 60
                <= storeLog[j].finish_actual - storeLog[j].start
           /\ storeLog[j].finish_actual - storeLog[j].start
                < (storeLog[j].duration_actual + 1) * 60
\* a logout has written a duration that is not a whole number of minutes
C8_Witness ==
    /\ button = "logout" /\ result = "success"
    /\ \E j \in Indices(storeLog) :
        /\ storeLog[j].name = name_logout
        /\ storeLog[j].finish_actual # Absent
        /\ (storeLog[j].finish_actual - storeLog[j].start) % 60 # 0

\* C9: a logout that finds no log row with the (name, start) of the session
\* being logged out fails with an error, and changes neither table.
NoLogRowFor(n) ==
    /\ n \in NamesOf(cacheDf)
    /\ LogRowsOf(cacheLog, n, cacheDf[FirstNamed(cacheDf, n)].start) = {}
C9_LogoutWithoutLogRowFails ==
    [][(LogoutRan /\ NoLogRowFor(name_logout'))
        => (result' = "exception" /\ UNCHANGED store)]_vars
\* the logout of a session, still in the active table, that has no log row
C9_Witness ==
    /\ pc = "idle" /\ button = "logout" /\ result = "exception"
    /\ NoLogRowFor(name_logout)
    /\ name_logout \in NamesOf(storeActive)

\* C10: once finish_actual and duration_actual of a log row are filled in, no
\* operation changes the row, and no operation removes a log row.
C10_ActualsWrittenOnce ==
    [][/\ Len(storeLog') >= Len(storeLog)
       /\ \A j \in Indices(storeLog) :
            storeLog[j].finish_actual # Absent => storeLog'[j] = storeLog[j]]_vars
\* C11 as written: the Home tab shows empty for n = 0, under capacity for
\* 1 <= n <= MAX_CAPACITY - 1, at capacity for n = MAX_CAPACITY and over
\* capacity for n > MAX_CAPACITY, for every n and every MAX_CAPACITY.
ClassifiedAsClaimed ==
    LET n == Len(cacheDf) IN
    /\ n = 0 => home = "empty"
    /\ (1 <= n /\ n <= max_capacity - 1) => home = "under"
    /\ n = max_capacity => home = "at"
    /\ n > max_capacity => home = "over"
SeveralOld ==
    Cardinality({i \in Indices(storeActive) : ~NotOlderThanMax(storeActive[i])}) >= 2
C12_SweepRemovesAllOld ==
    [][(LoadRan /\ SeveralOld /\ cacheDf' = storeActive)
        => storeActive' = SelectSeq(storeActive, NotOlderThanMax)]_vars

\* C13: after the sweep, the dataframe that the occupancy count, the capacity
\* message, the duplicate check of Login and the selectbox of Logout read
\* holds no session older than MAX_SESSION_DUR.
C13_TabsReadNoOldSession ==
    pc = "tabs" => \A i \in Indices(cacheDf) : NotOlderThanMax(cacheDf[i])
\* C14: in every state a logout leaves, a failure between its writes
\* included, if an active row of the session being logged out has gone then
\* the log row of the session holds finish_actual and duration_actual.
RowsOfSession(ws, n, st) == {i \in Indices(ws) : ws[i].name = n /\ ws[i].start = st}
C14_LogBeforeDelete ==
    [][(LogoutRan /\ name_logout' \in NamesOf(cacheDf))
        => LET n == name_logout'
               st == cacheDf[FirstNamed(cacheDf, n)].start
           IN  Cardinality(RowsOfSession(storeActive', n, st))
                    < Cardinality(RowsOfSession(storeActive, n, st))
               => \E j \in LogRowsOf(storeLog', n, st) :
                    /\ storeLog'[j].finish_actual # Absent
                    /\ storeLog'[j].duration_actual # Absent]_vars
\* a logout has failed between its two log writes: the session is active and
\* its log row holds finish_actual alone
C14_Witness ==
    /\ pc = "idle" /\ button = "logout" /\ result = "exception" /\ failed
    /\ name_logout \in NamesOf(storeActive)
    /\ \E j \in Indices(storeLog) :
        /\ storeLog[j].name = name_logout
        /\ storeLog[j].finish_actual # Absent
        /\ storeLog[j].duration_actual = Absent
\* C15: the cached view of the two tables changes only in a load cycle that
\* follows a Refresh or finds the entry CACHE_TTL seconds old, so never by a
\* login or a logout; and the view loaded after a Refresh is the two
\* worksheets as they are when polled.
C15_CacheChangesOnRefreshOrExpiry ==
    [][/\ <<cacheDf, cacheLog>>' # <<cacheDf, cacheLog>>
            => (LoadRan /\ (pc = "rerun" \/ utc - cacheAt >= CACHE_TTL))
       /\ (LoadRan /\ pc = "rerun")
            => (cacheDf' = storeActive /\ cacheLog' = storeLog)]_vars
\* a Refresh within CACHE_TTL of the start has loaded a session into the view
C15_Witness ==
    /\ pc = "tabs" /\ utc < CACHE_TTL
    /\ cacheDf # <<>> /\ cacheLog = storeLog

\* C16: a load cycle, whatever it evicts, leaves every row of the log table
\* unchanged.
C16_SweepLeavesLog == [][LoadRan => storeLog' = storeLog]_vars
\* a session of the dataframe is old and gone from the active table, and its
\* log row has no actual fields
C16_Witness ==
    /\ pc = "tabs"
    /\ \E i \in Indices(cacheDf) :
        /\ ~NotOlderThanMax(cacheDf[i])
        /\ RowsOfSession(storeActive, cacheDf[i].name, cacheDf[i].start) = {}
        /\ \E j \in LogRowsOf(storeLog, cacheDf[i].name, cacheDf[i].start) :
            /\ storeLog[j].finish_actual = Absent
            /\ storeLog[j].duration_actual = Absent

\* C17 as written: the (name, start) pairs of the log rows are pairwise
\* distinct, logins of one name within one clock tick included.
C17_LogKeysDistinct ==
    \A i, j \in Indices(storeLog) :
        (storeLog[i].name = storeLog[j].name /\ storeLog[i].start = storeLog[j].start)
            => i = j
\* C17 as amended: a log row that is appended has the (name, start) of an
\* older log row only if that row was started at the present clock reading:
\* logins of one name at different clock readings give distinct pairs.
C17_LogKeysCollideWithinTickOnly ==
    [][Len(storeLog') > Len(storeLog)
        => LET new == storeLog'[Len(storeLog')] IN
           \A j \in Indices(storeLog) :
                (storeLog[j].name = new.name /\ storeLog[j].start = new.start)
                    => storeLog[j].start = datetime_now(TIMEZONE_OFFSET)]_vars
\* one name has logged in at two clock readings
C17_Witness ==
    \E i, j \in Indices(storeLog) :
        /\ storeLog[i].name = storeLog[j].name
        /\ storeLog[i].start # storeLog[j].start

\* C18: with an empty active set, a click on Logout deletes no active row,
\* updates no log row and does not end in an unhandled failure.
C18_LogoutGuardedWhenEmpty ==
    [][(LogoutRan /\ storeActive = <<>> /\ cacheDf = <<>>)
        => (UNCHANGED store /\ result' # "exception")]_vars

\* C19: a load cycle that follows a run without click, on the same cached
\* view, deletes no session whose age is at most MAX_SESSION_DUR (the least
\* that the idempotence of the sweep asks).
C19_RepeatedSweepKeepsYoung ==
    [][(LoadRan /\ pc = "idle" /\ button = "none"
            /\ cacheValid /\ utc - cacheAt < CACHE_TTL)
        => SelectSeq(storeActive', NotOlderThanMax)
                = SelectSeq(storeActive, NotOlderThanMax)]_vars

\* C20: a logout of a name removes from the active table no row of another
\* name.
OtherThanLogout(row) == row.name # name_logout'
C20_LogoutKeepsOtherNames ==
    [][LogoutRan
        => SelectSeq(storeActive', OtherThanLogout)
                = SelectSeq(storeActive, OtherThanLogout)]_vars
====
